---- MODULE Spec2Model ----
(***************************************************************************)
(* Model of client/circuit_breaker/circuit_breaker.go: the CircuitBreaker  *)
(* state machine (closed / open / half-open), its mutex, the goroutines    *)
(* that call Execute and ChangeSettings, and the three metric counters.    *)
(*                                                                         *)
(* Time is counted in ticks of half a second, so that the truncation in    *)
(* uint32(ErrorRateWindow.Seconds()) is visible.  cb.state is a pointer:   *)
(* the model keeps the object it points to (state) and the identity of     *)
(* that object (stateId, its allocation number).  A State that is no       *)
(* longer cb.state is never read or written again by the code (onResult    *)
(* compares the pointers first), so only its identity is kept, in the      *)
(* local variable of the goroutine that still holds it.                    *)
(***************************************************************************)
EXTENDS Integers, FiniteSets

\* ---------------------------------------------------------------- bounds
MaxTime == 5
MaxCalls == 4
MaxChanges == 1

\* The goroutines that use the breaker.
Procs == {"g1", "g2"}

\* Ticks per second of the model's clock.
TicksPerSec == 2

\* The values a Settings field takes in the model.
ThresholdValues == {0, 50}
MinQPSValues == {2}
WindowValues == {1, 2}
CoolDownValues == {1}
HalfOpenValues == {0, 1, 2}

\* ------------------------------------------------------------- constants
\* The zero time.Time of `var end time.Time`; the clock starts after it.
ZeroTime == 0

StateClosed == "closed"
StateOpen == "open"
StateHalfOpen == "half-open"

No == "No"
Yes == "Yes"

ErrOpenState == "ErrOpenState"

Settings ==
    [ErrorRateThresholdPct : ThresholdValues,
     MinQPSForOpen : MinQPSValues,
     ErrorRateWindow : WindowValues,
     CoolDownInterval : CoolDownValues,
     HalfOpenSuccessCount : HalfOpenValues]

\* The mutators passed to ChangeSettings in the model set one field: the
\* Settings that one such mutator makes of cfg.
Mutations(cfg) ==
    {c \in Settings :
        Cardinality({f \in DOMAIN cfg : c[f] # cfg[f]}) <= 1}

VARIABLES
    config,            \* cb.config
    state,             \* the State object cb.state points to
    stateId,           \* the identity of that object
    mutex,             \* cb.mutex: "" when unlocked, else the goroutine holding it
    successCounter,    \* cb.successCounter
    failureCounter,    \* cb.failureCounter
    fastFailCounter,   \* cb.fastFailCounter
    lastLog,           \* the last transition written to the log
    now,               \* the clock read by time.Now()
    pc,                \* where each goroutine is
    held,              \* ExecuteAny's local `state`: the identity of the State onRequest returned
    err,               \* ExecuteAny's local `err` from cb.onRequest
    open,              \* the Overloading the call reported (or Yes from recover)
    panicking,         \* the call panicked and the panic is being re-raised
    invoked,           \* the running Execute has invoked the caller-supplied function
    ret,               \* what the last Execute of the goroutine returned
    calls,             \* Execute calls begun
    changes,           \* ChangeSettings calls begun
    dirty,             \* the settings changed since cb.state was created
    birth              \* {the Settings when cb.state was created} (SpecTracked only)

vars == <<config, state, stateId, mutex, successCounter, failureCounter,
          fastFailCounter, lastLog, now, pc, held, err, open, panicking,
          invoked, ret, calls, changes, dirty, birth>>

cbVars == <<config, state, stateId, successCounter, failureCounter,
            fastFailCounter, lastLog, dirty, birth>>

\* ------------------------------------------------------------ the State
\* newState forgetting that the request that ends the cooldown is the first probe.
NewStateNoPending(cfg, t, stateType) ==
    [stateType |-> stateType,
     end |-> CASE stateType = StateClosed -> t + cfg.ErrorRateWindow
               [] stateType = StateOpen -> t + cfg.CoolDownInterval
               [] OTHER -> ZeroTime,
     pendingCount |-> 0,
     successCount |-> 0,
     failureCount |-> 0]

\* newState: a State of the given type with zeroed success/failure counters.
NewState(cfg, t, stateType) ==
    [stateType |-> stateType,
     end |-> CASE stateType = StateClosed -> t + cfg.ErrorRateWindow
               [] stateType = StateOpen -> t + cfg.CoolDownInterval
               [] OTHER -> ZeroTime,
     pendingCount |-> IF stateType = StateHalfOpen THEN 1 ELSE 0,
     successCount |-> 0,
     failureCount |-> 0]

\* The deadline taken as over at the deadline itself (!now.Before(s.end)).
BeforeOrAt(end, t) == end <= t

\* s.end.Before(now)
Before(end, t) == end < t

\* uint32(s.cb.config.ErrorRateWindow.Seconds()): whole seconds, truncated.
WindowSeconds(cfg) == cfg.ErrorRateWindow \div TicksPerSec

\* total := s.failureCount + s.successCount
Total(s) == s.failureCount + s.successCount

\* observedErrorRatePct := s.failureCount * 100 / total  (total > 0)
ObservedErrorRatePct(s) == (s.failureCount * 100) \div Total(s)

\* The condition of the `if` that trips the breaker (total > 0).
ThresholdBreached(s, cfg) ==
    /\ cfg.ErrorRateThresholdPct > 0
    /\ Total(s) >= WindowSeconds(cfg) * cfg.MinQPSForOpen
    /\ ObservedErrorRatePct(s) >= cfg.ErrorRateThresholdPct

\* What State.onRequest yields: the State that becomes cb.state, whether it is
\* a newly allocated object, the error, the fast-fail increment and the log
\* line; or a runtime panic, which leaves everything as it was.
Outcome(s, fresh, e, ff, lg) ==
    [state |-> s, fresh |-> fresh, err |-> e, fastFail |-> ff, log |-> lg,
     panic |-> FALSE]

Panic(s) ==
    [state |-> s, fresh |-> FALSE, err |-> "none", fastFail |-> 0,
     log |-> "none", panic |-> TRUE]

\* State.onRequest, case StateClosed.
ClosedOnRequest(s, cfg, t) ==
    IF Before(s.end, t)
    THEN IF Total(s) = 0
         THEN Panic(s)   \* integer divide by zero in failureCount * 100 / total
         ELSE IF ThresholdBreached(s, cfg)
              THEN Outcome(NewState(cfg, t, StateOpen), TRUE, ErrOpenState, 1,
                           "tripped")
              ELSE Outcome(NewState(cfg, t, StateClosed), TRUE, "nil", 0, "none")
    ELSE Outcome(s, FALSE, "nil", 0, "none")

\* The open branch closing the circuit directly when the cooldown is over.
OpenOnRequestCloses(s, cfg, t) ==
    IF s.end < t
    THEN Outcome(NewState(cfg, t, StateClosed), TRUE, "nil", 0, "closed")
    ELSE Outcome(s, FALSE, ErrOpenState, 1, "none")

\* The open branch ending the cooldown one tick early (!now.Before(s.end)).
OpenOnRequestInclusive(s, cfg, t) ==
    IF s.end <= t
    THEN Outcome(NewState(cfg, t, StateHalfOpen), TRUE, "nil", 0, "half-open")
    ELSE Outcome(s, FALSE, ErrOpenState, 1, "none")

\* State.onRequest, case StateOpen.
OpenOnRequest(s, cfg, t) ==
    IF Before(s.end, t)
    THEN Outcome(NewState(cfg, t, StateHalfOpen), TRUE, "nil", 0, "half-open")
    ELSE Outcome(s, FALSE, ErrOpenState, 1, "none")

\* The half-open branch closing on any success (successCount > 0).
HalfOpenOnRequestAnySuccess(s, cfg, t) ==
    IF s.failureCount > 0
    THEN Outcome(NewState(cfg, t, StateOpen), TRUE, ErrOpenState, 1, "reopened")
    ELSE IF s.successCount > 0
    THEN Outcome(NewState(cfg, t, StateClosed), TRUE, "nil", 0, "closed")
    ELSE IF s.pendingCount < cfg.HalfOpenSuccessCount
    THEN Outcome([s EXCEPT !.pendingCount = @ + 1], FALSE, "nil", 0, "none")
    ELSE Outcome(s, FALSE, ErrOpenState, 1, "none")

\* The half-open branch tolerating one failed probe (failureCount > 1).
HalfOpenOnRequestTolerant(s, cfg, t) ==
    IF s.failureCount > 1
    THEN Outcome(NewState(cfg, t, StateOpen), TRUE, ErrOpenState, 1, "reopened")
    ELSE IF s.successCount = cfg.HalfOpenSuccessCount
    THEN Outcome(NewState(cfg, t, StateClosed), TRUE, "nil", 0, "closed")
    ELSE IF s.pendingCount < cfg.HalfOpenSuccessCount
    THEN Outcome([s EXCEPT !.pendingCount = @ + 1], FALSE, "nil", 0, "none")
    ELSE Outcome(s, FALSE, ErrOpenState, 1, "none")

\* The half-open branch closing only on more successes than the count
\* (successCount > count), which the probe budget never allows.
HalfOpenOnRequestStrict(s, cfg, t) ==
    IF s.failureCount > 0
    THEN Outcome(NewState(cfg, t, StateOpen), TRUE, ErrOpenState, 1, "reopened")
    ELSE IF s.successCount > cfg.HalfOpenSuccessCount
    THEN Outcome(NewState(cfg, t, StateClosed), TRUE, "nil", 0, "closed")
    ELSE IF s.pendingCount < cfg.HalfOpenSuccessCount
    THEN Outcome([s EXCEPT !.pendingCount = @ + 1], FALSE, "nil", 0, "none")
    ELSE Outcome(s, FALSE, ErrOpenState, 1, "none")

\* The half-open branch admitting one probe too many (pendingCount <= count).
HalfOpenOnRequestOverAdmit(s, cfg, t) ==
    IF s.failureCount > 0
    THEN Outcome(NewState(cfg, t, StateOpen), TRUE, ErrOpenState, 1, "reopened")
    ELSE IF s.successCount = cfg.HalfOpenSuccessCount
    THEN Outcome(NewState(cfg, t, StateClosed), TRUE, "nil", 0, "closed")
    ELSE IF s.pendingCount <= cfg.HalfOpenSuccessCount
    THEN Outcome([s EXCEPT !.pendingCount = @ + 1], FALSE, "nil", 0, "none")
    ELSE Outcome(s, FALSE, ErrOpenState, 1, "none")

\* State.onRequest, case StateHalfOpen.
HalfOpenOnRequest(s, cfg, t) ==
    IF s.failureCount > 0
    THEN Outcome(NewState(cfg, t, StateOpen), TRUE, ErrOpenState, 1, "reopened")
    ELSE IF s.successCount = cfg.HalfOpenSuccessCount
    THEN Outcome(NewState(cfg, t, StateClosed), TRUE, "nil", 0, "closed")
    ELSE IF s.pendingCount < cfg.HalfOpenSuccessCount
    THEN Outcome([s EXCEPT !.pendingCount = @ + 1], FALSE, "nil", 0, "none")
    ELSE Outcome(s, FALSE, ErrOpenState, 1, "none")

\* State.onRequest
StateOnRequest(s, cfg, t) ==
    CASE s.stateType = StateClosed -> ClosedOnRequest(s, cfg, t)
      [] s.stateType = StateOpen -> OpenOnRequest(s, cfg, t)
      [] OTHER -> HalfOpenOnRequest(s, cfg, t)

\* State.onResult: the State's counters.
StateOnResult(s, o) ==
    IF o = No
    THEN [s EXCEPT !.successCount = @ + 1]
    ELSE [s EXCEPT !.failureCount = @ + 1]

\* State.onResult: the metric counters, as <<success, failure, fast-fail>>.
MetricsOnResult(m, o) ==
    IF o = No
    THEN <<m[1] + 1, m[2], m[3]>>
    ELSE <<m[1], m[2], m[3] + 1>>

\* onResult without the pointer comparison: it records on cb.state.
IsCurrentAlways(cur, ptr) == TRUE

\* CircuitBreaker.onResult: `if cb.state == state`.
IsCurrent(cur, ptr) == cur = ptr

\* ExecuteAny without the early return on an error.
RejectsNever(e) == FALSE

\* ExecuteAny: `if err != nil { return defaultValue, err }`.
Rejects(e) == e # "nil"

\* Execute: a nil result becomes the zero value of T.
ExecuteResult(result) == IF result = "nil" THEN "zero" ELSE result

NoReturn == [result |-> "none", err |-> "none", panic |-> FALSE]

\* The value of birth in the specifications that do not record it.
Untracked == {}

\* The settings an evaluation would read had newState copied them into the State.
FrozenConfig(cfg, atBirth) == CHOOSE c \in atBirth : TRUE

\* State.onRequest reads s.cb.config: the settings as they are at the evaluation.
LiveConfig(cfg, atBirth) == cfg

\* The recovered panic reported as the function's own (successful) outcome.
ReportedOverloadingAsReturned(o, pan) == o

\* What ExecuteAny reports: the function's Overloading, or Yes from the
\* deferred recover when the function panicked.
ReportedOverloading(o, pan) == IF pan THEN Yes ELSE o

\* cb.fastFailCounter.Inc() of a rejection.  The model stops counting the
\* rejections at MaxCalls, which no behaviour of MaxCalls calls exceeds.
CountRejection(n, inc) == IF n + inc > MaxCalls THEN n ELSE n + inc

\* cb.mutex.Unlock() called at the end of the function instead of deferred:
\* a panic leaves the mutex locked.
UnlockAtEnd(p, panicked) == IF panicked THEN p ELSE ""

\* defer cb.mutex.Unlock(): the mutex is released however the function exits.
DeferredUnlock(p, panicked) == ""

\* ---------------------------------------------------------------- Init
Init ==
    /\ config \in Settings
    /\ now = ZeroTime + 1
    /\ state = NewState(config, now, StateClosed)
    /\ stateId = 1
    /\ mutex = ""
    /\ successCounter = 0
    /\ failureCounter = 0
    /\ fastFailCounter = 0
    /\ lastLog = "none"
    /\ pc = [p \in Procs |-> "idle"]
    /\ held = [p \in Procs |-> 0]
    /\ err = [p \in Procs |-> "none"]
    /\ open = [p \in Procs |-> "none"]
    /\ panicking = [p \in Procs |-> FALSE]
    /\ invoked = [p \in Procs |-> FALSE]
    /\ ret = [p \in Procs |-> NoReturn]
    /\ calls = 0
    /\ changes = 0
    /\ dirty = FALSE
    /\ birth = Untracked

\* -------------------------------------------------------------- actions
\* Time passes.
Tick ==
    /\ now < MaxTime
    /\ now' = now + 1
    /\ UNCHANGED <<cbVars, mutex, pc, held, err, open, panicking, invoked, ret, calls, changes>>

\* Execute -> ExecuteAny -> cb.onRequest: cb.mutex.Lock().  A call that is
\* counted takes one of the MaxCalls calls of a behaviour.
ExecLockCounting(p, counted) ==
    /\ pc[p] = "idle"
    /\ counted => calls < MaxCalls
    /\ mutex = ""
    /\ mutex' = p
    /\ pc' = [pc EXCEPT ![p] = "onRequest"]
    /\ held' = [held EXCEPT ![p] = 0]
    /\ err' = [err EXCEPT ![p] = "none"]
    /\ open' = [open EXCEPT ![p] = "none"]
    /\ panicking' = [panicking EXCEPT ![p] = FALSE]
    /\ invoked' = [invoked EXCEPT ![p] = FALSE]
    /\ ret' = [ret EXCEPT ![p] = NoReturn]
    /\ calls' = IF counted THEN calls + 1 ELSE calls
    /\ UNCHANGED <<cbVars, now, changes>>

\* An Execute call begins.
ExecLock(p) == ExecLockCounting(p, TRUE)

\* cb.onRequest under the lock, the deferred Unlock, and what ExecuteAny and
\* Execute do with its result up to the call of the function.
OnRequestStep(p) ==
    /\ pc[p] = "onRequest"
    /\ mutex = p
    /\ LET r == StateOnRequest(state, LiveConfig(config, birth), now) IN
       /\ mutex' = DeferredUnlock(p, r.panic)
       /\ IF r.panic
          THEN \* the panic unwinds cb.onRequest, ExecuteAny and Execute
               /\ pc' = [pc EXCEPT ![p] = "idle"]
               /\ ret' = [ret EXCEPT ![p] = [NoReturn EXCEPT !.panic = TRUE]]
               /\ UNCHANGED <<cbVars, held, err>>
          ELSE /\ state' = r.state
               /\ stateId' = IF r.fresh THEN stateId + 1 ELSE stateId
               /\ dirty' = IF r.fresh THEN FALSE ELSE dirty
               /\ birth' = IF r.fresh /\ birth # Untracked THEN {config} ELSE birth
               /\ fastFailCounter' = CountRejection(fastFailCounter, r.fastFail)
               /\ lastLog' = IF r.log = "none" THEN lastLog ELSE r.log
               /\ err' = [err EXCEPT ![p] = r.err]
               /\ IF Rejects(r.err)
                  THEN /\ pc' = [pc EXCEPT ![p] = "idle"]
                       /\ held' = [held EXCEPT ![p] = 0]
                       /\ ret' = [ret EXCEPT ![p] =
                                    [result |-> ExecuteResult("nil"),
                                     err |-> r.err, panic |-> FALSE]]
                  ELSE /\ pc' = [pc EXCEPT ![p] = "admitted"]
                       /\ held' = [held EXCEPT ![p] = stateId']
                       /\ UNCHANGED ret
               /\ UNCHANGED <<config, successCounter, failureCounter>>
    /\ UNCHANGED <<now, open, panicking, invoked, calls, changes>>

\* ExecuteAny: call() is invoked, with no lock held.
Invoke(p) ==
    /\ pc[p] = "admitted"
    /\ pc' = [pc EXCEPT ![p] = "calling"]
    /\ invoked' = [invoked EXCEPT ![p] = TRUE]
    /\ UNCHANGED <<cbVars, mutex, now, held, err, open, panicking,
                   ret, calls, changes>>

\* call() returns its Overloading, or panics and the deferred function
\* recovers (it reports Yes and will panic again); then cb.onResult:
\* cb.mutex.Lock().
CallReturn(p, o, pan) ==
    /\ pc[p] = "calling"
    /\ mutex = ""
    /\ mutex' = p
    /\ pc' = [pc EXCEPT ![p] = "onResult"]
    /\ open' = [open EXCEPT ![p] = ReportedOverloading(o, pan)]
    /\ panicking' = [panicking EXCEPT ![p] = pan]
    /\ UNCHANGED <<cbVars, now, held, err, invoked, ret, calls, changes>>

\* cb.onResult under the lock, the deferred Unlock, and the return (or the
\* renewed panic) of ExecuteAny and Execute.
OnResultStep(p) ==
    /\ pc[p] = "onResult"
    /\ mutex = p
    /\ mutex' = ""
    /\ IF IsCurrent(stateId, held[p])
       THEN LET m == MetricsOnResult(
                        <<successCounter, failureCounter, fastFailCounter>>,
                        open[p]) IN
            /\ state' = StateOnResult(state, open[p])
            /\ successCounter' = m[1]
            /\ failureCounter' = m[2]
            /\ fastFailCounter' = m[3]
       ELSE UNCHANGED <<state, successCounter, failureCounter,
                        fastFailCounter>>
    /\ pc' = [pc EXCEPT ![p] = "idle"]
    /\ ret' = [ret EXCEPT ![p] =
                 IF panicking[p]
                 THEN [NoReturn EXCEPT !.panic = TRUE]
                 ELSE [result |-> ExecuteResult("value"), err |-> "callErr",
                       panic |-> FALSE]]
    /\ held' = [held EXCEPT ![p] = 0]
    /\ err' = [err EXCEPT ![p] = "none"]
    /\ open' = [open EXCEPT ![p] = "none"]
    /\ panicking' = [panicking EXCEPT ![p] = FALSE]
    /\ invoked' = [invoked EXCEPT ![p] = FALSE]
    /\ UNCHANGED <<config, stateId, lastLog, dirty, birth, now, calls,
                   changes>>

\* ChangeSettings: cb.mutex.Lock().
ChangeLock(p) ==
    /\ pc[p] = "idle"
    /\ changes < MaxChanges
    /\ mutex = ""
    /\ mutex' = p
    /\ pc' = [pc EXCEPT ![p] = "changeSettings"]
    /\ changes' = changes + 1
    /\ UNCHANGED <<cbVars, now, held, err, open, panicking, invoked,
                   ret, calls>>

\* ChangeSettings: apply(cb.config) and the deferred Unlock.
ChangeApply(p, cfg) ==
    /\ pc[p] = "changeSettings"
    /\ mutex = p
    /\ cfg \in Mutations(config)
    /\ mutex' = ""
    /\ config' = cfg
    /\ dirty' = (dirty \/ cfg # config)
    /\ pc' = [pc EXCEPT ![p] = "idle"]
    /\ UNCHANGED <<state, stateId, successCounter, failureCounter,
                   fastFailCounter, lastLog, birth, now, held, err, open,
                   panicking, invoked, ret, calls, changes>>

Next ==
    \/ Tick
    \/ \E p \in Procs : ExecLock(p)
    \/ \E p \in Procs : OnRequestStep(p)
    \/ \E p \in Procs : Invoke(p)
    \/ \E p \in Procs, o \in {No, Yes}, pan \in BOOLEAN : CallReturn(p, o, pan)
    \/ \E p \in Procs : OnResultStep(p)
    \/ \E p \in Procs : ChangeLock(p)
    \/ \E p \in Procs, cfg \in Settings : ChangeApply(p, cfg)

Spec == Init /\ [][Next]_vars

\* The same program, constructed with tripping enabled, with the Settings at
\* the creation of cb.state recorded.
InitTracked ==
    /\ config \in {c \in Settings : c.ErrorRateThresholdPct > 0}
    /\ now = ZeroTime + 1
    /\ state = NewState(config, now, StateClosed)
    /\ stateId = 1
    /\ mutex = ""
    /\ successCounter = 0
    /\ failureCounter = 0
    /\ fastFailCounter = 0
    /\ lastLog = "none"
    /\ pc = [p \in Procs |-> "idle"]
    /\ held = [p \in Procs |-> 0]
    /\ err = [p \in Procs |-> "none"]
    /\ open = [p \in Procs |-> "none"]
    /\ panicking = [p \in Procs |-> FALSE]
    /\ invoked = [p \in Procs |-> FALSE]
    /\ ret = [p \in Procs |-> NoReturn]
    /\ calls = 0
    /\ changes = 0
    /\ dirty = FALSE
    /\ birth = {config}

SpecTracked == InitTracked /\ [][Next]_vars

\* The program under the conditions of recovery: it is constructed with
\* tripping enabled and HalfOpenSuccessCount >= 1 and the settings are never
\* changed; the calls of a behaviour are counted only while the breaker is
\* closed, so that requests keep arriving while it is open or half-open;
\* outside Closed every call returns and reports No; time advances (up to
\* MaxTime), and no step that stays or keeps becoming possible is postponed
\* for ever (sync.Mutex does not starve a waiting goroutine).
InitRecovery ==
    /\ Init
    /\ config.ErrorRateThresholdPct > 0
    /\ config.HalfOpenSuccessCount >= 1

NextRecovery ==
    \/ Tick
    \/ \E p \in Procs : ExecLockCounting(p, state.stateType = StateClosed)
    \/ \E p \in Procs : OnRequestStep(p)
    \/ \E p \in Procs : Invoke(p)
    \/ \E p \in Procs, o \in {No, Yes}, pan \in BOOLEAN :
          /\ state.stateType = StateClosed \/ (o = No /\ ~pan)
          /\ CallReturn(p, o, pan)
    \/ \E p \in Procs : OnResultStep(p)

FairRecovery ==
    /\ WF_vars(Tick)
    /\ \A p \in Procs :
         /\ SF_vars(state.stateType # StateClosed /\ ExecLockCounting(p, FALSE))
         /\ WF_vars(OnRequestStep(p))
         /\ WF_vars(Invoke(p))
         /\ SF_vars(CallReturn(p, No, FALSE))
         /\ WF_vars(OnResultStep(p))

SpecRecovery == InitRecovery /\ [][NextRecovery]_vars /\ FairRecovery

\* ================================================================ claims
\* The step of goroutine p that runs cb.onRequest (the admission evaluation).
Evaluates(p) == pc[p] = "onRequest" /\ pc'[p] # "onRequest"

\* The step of goroutine p that runs cb.onResult (the outcome report).
Reports(p) == pc[p] = "onResult" /\ pc'[p] # "onResult"

\* Goroutine p is inside Execute.
InExecute(p) == pc[p] \in {"onRequest", "admitted", "calling", "onResult"}

\* What Execute returns for a rejected request.
RejectedReturn == [result |-> "zero", err |-> ErrOpenState, panic |-> FALSE]

\* After the step, p's request is admitted by the State that is now current.
AdmittedBy(p) ==
    /\ pc'[p] = "admitted"
    /\ err'[p] = "nil"
    /\ held'[p] = stateId'

\* After the step, p's Execute has returned the rejection.
RejectedBy(p) ==
    /\ ~InExecute(p)'
    /\ err'[p] = ErrOpenState
    /\ ret'[p] = RejectedReturn
    /\ ~invoked'[p]

\* After the step, cb.state is a new object of the given type, created now.
FreshState(stateType, end, pending) ==
    /\ stateId' = stateId + 1
    /\ state' = [stateType |-> stateType, end |-> end, pendingCount |-> pending,
                 successCount |-> 0, failureCount |-> 0]

\* The error rate the specification gives a window: 0% when it saw no request.
SpecErrorRatePct(s) ==
    IF s.successCount + s.failureCount = 0
    THEN 0
    ELSE (s.failureCount * 100) \div (s.successCount + s.failureCount)

\* The trip condition as the specification states it.
SpecTripCondition(s, cfg) ==
    /\ cfg.ErrorRateThresholdPct > 0
    /\ s.successCount + s.failureCount
         >= (cfg.ErrorRateWindow \div TicksPerSec) * cfg.MinQPSForOpen
    /\ SpecErrorRatePct(s) >= cfg.ErrorRateThresholdPct

\* C1: a request evaluated in Closed after the window deadline, when the
\* sojourn saw no outcome (successCount + failureCount = 0), does not panic and
\* does not trip: cb.state becomes a fresh Closed State (deadline now +
\* ErrorRateWindow, counters zero) and the request is admitted.
C1_ZeroTrafficWindow ==
    [][\A p \in Procs :
         (/\ Evaluates(p)
          /\ state.stateType = StateClosed
          /\ state.end < now
          /\ state.successCount + state.failureCount = 0)
         => /\ ~ret'[p].panic
            /\ FreshState(StateClosed, now + config.ErrorRateWindow, 0)
            /\ AdmittedBy(p)]_vars

\* C2: an Execute whose admission evaluation rejects the request has returned
\* the zero value and ErrOpenState, never invoked the caller's function and
\* holds no State to record an outcome on; and the rejecting step records no
\* outcome (no success or failure count grows).
C2_RejectedNeverInvoked ==
    /\ [](\A p \in Procs :
            (err[p] = ErrOpenState \/ ret[p].err = ErrOpenState)
            => /\ ~InExecute(p)
               /\ ~invoked[p]
               /\ held[p] = 0
               /\ err[p] = ErrOpenState
               /\ ret[p] = RejectedReturn)
    /\ [][\A p \in Procs :
            (Evaluates(p) /\ err'[p] = ErrOpenState)
            => /\ state'.successCount <= state.successCount
               /\ state'.failureCount <= state.failureCount
               /\ successCounter' = successCounter
               /\ failureCounter' = failureCounter]_vars

\* C2 witness: a rejected Execute has returned while the breaker is open.
C2_Witness ==
    \E p \in Procs :
        /\ ret[p] = RejectedReturn
        /\ ~InExecute(p)
        /\ state.stateType = StateOpen

\* C3: a request evaluated in Closed after the window has elapsed moves the
\* breaker to Open (deadline now + CoolDownInterval) and is rejected if and
\* only if ErrorRateThresholdPct > 0, total >= ErrorRateWindow.seconds *
\* MinQPSForOpen and floor(failureCount * 100 / total) >= ErrorRateThresholdPct;
\* in every other case it starts a fresh Closed State and is admitted.
C3_TripRule ==
    [][\A p \in Procs :
         (/\ Evaluates(p)
          /\ state.stateType = StateClosed
          /\ state.end < now)
         => IF SpecTripCondition(state, config)
            THEN /\ FreshState(StateOpen, now + config.CoolDownInterval, 0)
                 /\ RejectedBy(p)
            ELSE /\ FreshState(StateClosed, now + config.ErrorRateWindow, 0)
                 /\ AdmittedBy(p)]_vars

\* The breaker is open and its cooldown has not elapsed (!s.end.Before(now)).
OpenInCoolDown == state.stateType = StateOpen /\ now <= state.end

\* While open within the cooldown, every request evaluated is rejected with
\* ErrOpenState and cb.state stays the same Open object.
OpenRejectsStep ==
    \A p \in Procs :
        (OpenInCoolDown /\ Evaluates(p))
        => /\ RejectedBy(p)
           /\ state' = state
           /\ stateId' = stateId

\* C4 as stated: while open within the cooldown every request is rejected and
\* cb.state stays the same object, and during that period no caller-supplied
\* function is invoked at all.
C4_NoInvocationWhileOpen ==
    [][/\ OpenRejectsStep
       /\ OpenInCoolDown => \A p \in Procs : ~(~invoked[p] /\ invoked'[p])]_vars

\* C4 amended: while open within the cooldown every request evaluated is
\* rejected with ErrOpenState and cb.state stays the same Open object; no
\* request is ever admitted by an Open State, so the only functions invoked in
\* that period belong to requests admitted before the breaker opened.
C4_OpenRejects ==
    /\ [][OpenRejectsStep]_vars
    /\ [](\A p \in Procs :
            (state.stateType = StateOpen
             /\ pc[p] \in {"admitted", "calling", "onResult"})
            => held[p] # stateId)

\* C4 witness: the first Open State is current, within its cooldown, and both
\* goroutines were rejected: one by the trip, the other by the Open State.
C4_Witness ==
    /\ OpenInCoolDown
    /\ stateId = 2
    /\ \A p \in Procs : ret[p] = RejectedReturn /\ ~InExecute(p)

\* C5: the request evaluated in Open after the cooldown has elapsed is
\* admitted and makes cb.state a new HalfOpen State with pendingCount = 1 and
\* successCount = failureCount = 0; the request holds that new State, and its
\* outcome is recorded on it.
C5_ProbeAfterCoolDown ==
    /\ [][\A p \in Procs :
            (Evaluates(p) /\ state.stateType = StateOpen /\ state.end < now)
            => /\ FreshState(StateHalfOpen, ZeroTime, 1)
               /\ AdmittedBy(p)]_vars
    /\ [][\A p \in Procs :
            (/\ Reports(p)
             /\ state.stateType = StateHalfOpen
             /\ held[p] = stateId)
            => state' = [state EXCEPT
                           !.successCount = @ + (IF open[p] = No THEN 1 ELSE 0),
                           !.failureCount = @ + (IF open[p] = Yes THEN 1 ELSE 0)]]_vars

\* C5 witness: the first probe's outcome is on the HalfOpen State it created.
C5_Witness ==
    /\ state.stateType = StateHalfOpen
    /\ state.pendingCount = 1
    /\ state.successCount + state.failureCount = 1
    /\ lastLog = "half-open"

\* C6: with HalfOpenSuccessCount = k >= 1 and the settings unchanged during the
\* sojourn: the request evaluated in HalfOpen once k probes have reported
\* not-overloaded (and none overloaded) makes cb.state a fresh Closed State
\* (counters zero, deadline now + ErrorRateWindow) and is admitted; and no
\* evaluation takes HalfOpen to Closed with fewer than k recorded successes.
C6_HalfOpenCloses ==
    [][\A p \in Procs :
         (/\ Evaluates(p)
          /\ state.stateType = StateHalfOpen
          /\ config.HalfOpenSuccessCount >= 1
          /\ ~dirty)
         => /\ (state.successCount = config.HalfOpenSuccessCount)
               => /\ FreshState(StateClosed, now + config.ErrorRateWindow, 0)
                  /\ AdmittedBy(p)
            /\ (state'.stateType = StateClosed)
               => state.successCount >= config.HalfOpenSuccessCount]_vars

\* C6 witness: the breaker has just closed from half-open, the settings
\* unchanged, and the closing request is admitted by the fresh Closed State.
C6_Witness ==
    /\ state.stateType = StateClosed
    /\ lastLog = "closed"
    /\ config.HalfOpenSuccessCount >= 1
    /\ changes = 0
    /\ state.successCount + state.failureCount = 0
    /\ \E p \in Procs : pc[p] = "admitted" /\ held[p] = stateId

\* C7: once a probe of a HalfOpen sojourn has reported overload, the next
\* request evaluated is rejected with ErrOpenState and moves the breaker back
\* to Open (deadline now + CoolDownInterval), whatever the other probes
\* reported: that HalfOpen State admits no further request.
C7_HalfOpenFailureReopens ==
    [][\A p \in Procs :
         (/\ Evaluates(p)
          /\ state.stateType = StateHalfOpen
          /\ state.failureCount > 0)
         => /\ FreshState(StateOpen, now + config.CoolDownInterval, 0)
            /\ RejectedBy(p)]_vars

\* C7 witness: the breaker went from half-open back to open, rejecting.
C7_Witness ==
    /\ state.stateType = StateOpen
    /\ lastLog = "reopened"
    /\ \E p \in Procs : ret[p] = RejectedReturn /\ ~InExecute(p)

\* C8: the report of an outcome by a request whose admitting State is no
\* longer cb.state leaves cb.state, and so its successCount, failureCount and
\* pendingCount, unchanged.
C8_StaleOutcomeDropped ==
    [][\A p \in Procs :
         (Reports(p) /\ held[p] # stateId)
         => /\ state' = state
            /\ stateId' = stateId]_vars

\* C8 witness: a request is about to report (it holds the lock in
\* cb.onResult) while cb.state is a later State than the one that admitted it.
C8_Witness ==
    \E p \in Procs :
        /\ pc[p] = "onResult"
        /\ mutex = p
        /\ held[p] # stateId
        /\ held[p] > 0

\* C9: once every Execute begun has completed, success + failure + fast-fail
\* equals the number of Execute calls.
C9_CountersSumToCalls ==
    (\A p \in Procs : ~InExecute(p))
    => successCounter + failureCounter + fastFailCounter = calls

\* C10: the fast-fail counter grows only in a step that rejects a request
\* without invoking the function; a recorded overload (or panic) grows the
\* failure counter and a recorded not-overloaded outcome the success counter.
C10_CounterMeaning ==
    [][/\ fastFailCounter' # fastFailCounter
          => \E p \in Procs : Evaluates(p) /\ ret'[p] = RejectedReturn
       /\ \A p \in Procs :
            (Reports(p) /\ held[p] = stateId)
            => /\ open[p] = Yes => failureCounter' = failureCounter + 1
               /\ open[p] = No => successCounter' = successCounter + 1]_vars

\* C11: when the function panics after admission, the recovered panic is
\* kept only while cb.onResult runs with Yes (it has not propagated yet); that
\* report adds exactly one to failureCount of the admitting State when it is
\* still cb.state (and records nothing when it is not), after which the panic
\* leaves Execute as a panic, not as an error or a value, with the mutex
\* released and the goroutine free to call again; a function that returned
\* never makes Execute panic.
C11_PanicRecordedThenPropagated ==
    /\ [](\A p \in Procs :
            panicking[p]
            => /\ pc[p] = "onResult"
               /\ mutex = p
               /\ open[p] = Yes
               /\ invoked[p]
               /\ ~ret[p].panic)
    /\ [][\A p \in Procs :
            /\ (Reports(p) /\ panicking[p])
               => /\ held[p] = stateId
                     => state' = [state EXCEPT !.failureCount = @ + 1]
                  /\ held[p] # stateId => state' = state
                  /\ stateId' = stateId
                  /\ ret'[p] = [result |-> "none", err |-> "none", panic |-> TRUE]
                  /\ pc'[p] = "idle"
                  /\ mutex' = ""
            /\ (Reports(p) /\ ~panicking[p]) => ~ret'[p].panic]_vars

\* C11 witness: the only Execute so far was admitted by the first State, its
\* function panicked, one failure is recorded on that State and the panic has
\* left Execute.
C11_Witness ==
    \E p \in Procs :
        /\ calls = 1
        /\ stateId = 1
        /\ state.failureCount = 1
        /\ state.successCount = 0
        /\ ret[p].panic
        /\ ~InExecute(p)
        /\ mutex = ""

\* The Settings as they were when cb.state was created.
SettingsAtBirth == CHOOSE c \in birth : TRUE

\* What an admission evaluation decides: to fault, to admit or reject, and
\* which type of State is current afterwards, in a new object or the same one.
Decision(r) ==
    IF r.panic
    THEN <<"panic">>
    ELSE <<r.err, r.state.stateType, r.fresh, r.state.pendingCount>>

\* C12: ChangeSettings is reflected only in the next evaluation window: when
\* the settings were changed during the sojourn of cb.state, the evaluation of
\* a request in that State decides what it would have decided with the
\* Settings the sojourn started with.
C12_ChangeReflectedInNextWindow ==
    [][\A p \in Procs :
         (Evaluates(p) /\ birth # {config})
         => Decision(StateOnRequest(state, SettingsAtBirth, now))
              = IF ret'[p].panic
                THEN <<"panic">>
                ELSE <<err'[p], state'.stateType, stateId' # stateId,
                       state'.pendingCount>>]_vars

Outstanding ==
    {p \in Procs : held[p] = stateId /\ pc[p] \in {"admitted", "calling", "onResult"}}

\* C15: with the settings unchanged since the HalfOpen State was created and
\* HalfOpenSuccessCount = k >= 1, that State has admitted pendingCount
\* requests, each either recorded or outstanding, and at most k of them
\* (successCount + failureCount <= pendingCount <= k); and a request
\* evaluated while pendingCount < k, failureCount = 0 and successCount < k is
\* admitted by the same State object, whose pendingCount grows by exactly one.
C15_ProbeBudget ==
    /\ []((/\ state.stateType = StateHalfOpen
           /\ ~dirty
           /\ config.HalfOpenSuccessCount >= 1)
          => /\ state.successCount + state.failureCount <= state.pendingCount
             /\ state.pendingCount <= config.HalfOpenSuccessCount
             /\ state.pendingCount
                  = state.successCount + state.failureCount
                      + Cardinality(Outstanding))
    /\ [][\A p \in Procs :
            (/\ Evaluates(p)
             /\ state.stateType = StateHalfOpen
             /\ ~dirty
             /\ config.HalfOpenSuccessCount >= 1
             /\ state.pendingCount < config.HalfOpenSuccessCount
             /\ state.failureCount = 0
             /\ state.successCount < config.HalfOpenSuccessCount)
            => /\ state' = [state EXCEPT !.pendingCount = @ + 1]
               /\ stateId' = stateId
               /\ AdmittedBy(p)]_vars

\* C15 witness: with HalfOpenSuccessCount = 2 unchanged, the HalfOpen State
\* has just admitted its second and last probe while the first is outstanding.
C15_Witness ==
    \E p, q \in Procs :
        /\ p # q
        /\ state.stateType = StateHalfOpen
        /\ ~dirty
        /\ config.HalfOpenSuccessCount = 2
        /\ state.pendingCount = 2
        /\ state.successCount + state.failureCount = 0
        /\ pc[p] = "admitted"
        /\ held[p] = stateId
        /\ held[q] = stateId

\* HalfOpenSuccessCount has been at least 1 all along: it is now and it was
\* when cb.state was created, and the settings were changed at most once, during
\* the sojourn of cb.state.
KeptPositive ==
    /\ config.HalfOpenSuccessCount >= 1
    /\ SettingsAtBirth.HalfOpenSuccessCount >= 1
    /\ \/ changes = 0
       \/ changes = 1 /\ birth # {config}

\* With the settings as they are, cb.state rejects a request at any time from
\* now on and stays the current State.
RejectsForEver ==
    \A t \in now..MaxTime :
        LET r == StateOnRequest(state, config, t) IN
            /\ ~r.panic
            /\ r.err = ErrOpenState
            /\ ~r.fresh

\* C16: with HalfOpenSuccessCount kept >= 1, a request rejected by a HalfOpen
\* State that stays current finds a probe of that State still unreported
\* (successCount + failureCount < pendingCount); and the breaker is never at
\* rest in a HalfOpen State whose probes have all reported and which rejects
\* every future request without a transition.
C16_RejectsOnlyWhileProbeOutstanding ==
    /\ [][\A p \in Procs :
            (/\ Evaluates(p)
             /\ state.stateType = StateHalfOpen
             /\ KeptPositive
             /\ RejectedBy(p)
             /\ stateId' = stateId)
            => state.successCount + state.failureCount < state.pendingCount]_vars
    /\ []((/\ state.stateType = StateHalfOpen
           /\ KeptPositive
           /\ mutex = ""
           /\ state.successCount + state.failureCount = state.pendingCount)
          => ~RejectsForEver)

\* C17: with HalfOpenSuccessCount = 0 (unchanged since the HalfOpen State was
\* created), a request evaluated in a HalfOpen State with no recorded failure
\* makes a fresh Closed State current and is admitted, whether the first probe
\* has reported or not; no request is rejected by a HalfOpen State that stays.
C17_ZeroCountClosesAtOnce ==
    [][\A p \in Procs :
         (/\ Evaluates(p)
          /\ state.stateType = StateHalfOpen
          /\ ~dirty
          /\ config.HalfOpenSuccessCount = 0)
         => /\ state.failureCount = 0
               => /\ FreshState(StateClosed, now + config.ErrorRateWindow, 0)
                  /\ AdmittedBy(p)
            /\ ~(RejectedBy(p) /\ stateId' = stateId)]_vars

\* The changes of type the specification allows, as <<from, to>>.
AllowedTransitions ==
    {<<StateClosed, StateOpen>>, <<StateOpen, StateHalfOpen>>,
     <<StateHalfOpen, StateOpen>>, <<StateHalfOpen, StateClosed>>,
     <<StateClosed, StateClosed>>}

\* C18: cb.state is replaced only by the admission evaluation of a request
\* (never by an outcome report, by ChangeSettings or by the clock); the new
\* State has successCount = failureCount = 0 and its type follows closed ->
\* open, open -> half-open, half-open -> open, half-open -> closed or closed ->
\* closed; and while the object stays, its type and deadline stay.
C18_TransitionDiscipline ==
    [][/\ stateId' # stateId
          => /\ \E p \in Procs : Evaluates(p)
             /\ stateId' = stateId + 1
             /\ state'.successCount = 0
             /\ state'.failureCount = 0
             /\ <<state.stateType, state'.stateType>> \in AllowedTransitions
       /\ stateId' = stateId
          => /\ state'.stateType = state.stateType
             /\ state'.end = state.end
       /\ (\A p \in Procs : ~Evaluates(p)) => stateId' = stateId]_vars

\* C18 witness: the breaker has gone closed -> open -> half-open -> closed: the
\* fourth State is a Closed State with zeroed counters.
C18_Witness ==
    /\ stateId = 4
    /\ lastLog = "closed"
    /\ state.stateType = StateClosed
    /\ state.successCount = 0
    /\ state.failureCount = 0

\* C20 as the specification states it: the deadline is exclusive ("not yet
\* elapsed" is now < end).  A request evaluated before the deadline leaves the
\* State as it is (Closed admits, Open rejects); one evaluated in Closed at
\* now = end triggers the window evaluation (the State is replaced or, for a
\* window without outcome, the evaluation faults); one evaluated in Open at
\* now = end is admitted as the first probe of a new HalfOpen State.
C20_DeadlineExclusive ==
    [][\A p \in Procs :
         Evaluates(p)
         => /\ (state.stateType = StateClosed /\ now < state.end)
               => state' = state /\ stateId' = stateId /\ AdmittedBy(p)
            /\ (state.stateType = StateOpen /\ now < state.end)
               => state' = state /\ stateId' = stateId /\ RejectedBy(p)
            /\ (state.stateType = StateClosed /\ now = state.end)
               => stateId' = stateId + 1 \/ ret'[p].panic
            /\ (state.stateType = StateOpen /\ now = state.end)
               => FreshState(StateHalfOpen, ZeroTime, 1) /\ AdmittedBy(p)]_vars

\* C20, amended: the deadline is inclusive ("not yet elapsed" is now <= end).
\* A request evaluated at or before the deadline leaves the State as it is
\* (Closed admits, Open rejects); only one evaluated after it (now > end)
\* triggers the window evaluation in Closed (the State is replaced or, for a
\* window without outcome, the evaluation faults) and is admitted as the first
\* probe of a new HalfOpen State in Open.
C20_DeadlineInclusive ==
    [][\A p \in Procs :
         Evaluates(p)
         => /\ (state.stateType = StateClosed /\ now <= state.end)
               => state' = state /\ stateId' = stateId /\ AdmittedBy(p)
            /\ (state.stateType = StateOpen /\ now <= state.end)
               => state' = state /\ stateId' = stateId /\ RejectedBy(p)
            /\ (state.stateType = StateClosed /\ now > state.end)
               => stateId' = stateId + 1 \/ ret'[p].panic
            /\ (state.stateType = StateOpen /\ now > state.end)
               => FreshState(StateHalfOpen, ZeroTime, 1) /\ AdmittedBy(p)]_vars

\* C20 witness: a request is being evaluated by an Open State exactly at its
\* deadline, at the last instant of the clock (no time can pass before the
\* evaluation reads it).
C20_Witness ==
    \E p \in Procs :
        /\ pc[p] = "onRequest"
        /\ mutex = p
        /\ state.stateType = StateOpen
        /\ now = state.end
        /\ now = MaxTime

\* C19: with the settings unchanged and HalfOpenSuccessCount >= 1, from an
\* Open State (whose cooldown ends within the clock's range), when time keeps
\* advancing, requests keep arriving and every call returns not overloaded,
\* the breaker eventually makes a Closed State current.
C19_Recovery ==
    (/\ state.stateType = StateOpen
     /\ config.HalfOpenSuccessCount >= 1
     /\ state.end < MaxTime)
    ~> (state.stateType = StateClosed)

\* C19 witness: the breaker has recovered: after open and half-open, with
\* HalfOpenSuccessCount = 2, the fourth State is Closed and the request that
\* closed the circuit has been admitted by it.
C19_Witness ==
    \E p \in Procs :
        /\ config.HalfOpenSuccessCount = 2
        /\ lastLog = "closed"
        /\ stateId = 4
        /\ state.stateType = StateClosed
        /\ pc[p] = "admitted"
        /\ held[p] = stateId

====
